---- MODULE Spec2Model ----
EXTENDS Integers, Sequences, FiniteSets, TLC

(***************************************************************************)
(* Yandex Webmaster MCP server: the error boundary (withErrorHandling),    *)
(* the retrying request client (YandexWebmasterClient) and the tool        *)
(* registry of src/index.ts.                                               *)
(*                                                                         *)
(* Text is a TLA+ string; Len, \o and SubSeq act on strings as on          *)
(* sequences of characters.                                                *)
(***************************************************************************)

VARIABLES
    proc,        \* the process: "loading", "connecting", "serving", "exited", "library"
    env,         \* process.env.YANDEX_API_KEY
    exitCode,    \* status given to process.exit, -1 while running
    stderr,      \* lines written with console.error
    token,       \* YandexWebmasterClient.token
    options,     \* the config argument the constructor was given
    config,      \* YandexWebmasterClient.config
    registry,    \* tools registered with the server: name -> is its handler wrapped
    pc,          \* per call: "idle", "fetching", "body", "backoff", "done"
    entry,       \* per call: what the caller invoked
    req,         \* per call: makeRequest's url and options
    attempt,     \* per call: makeRequest's attempt parameter
    resp,        \* per call: the response received by the pending attempt
    timers,      \* per call: attempts whose timeout timer is armed
    sent,        \* per call: the physical HTTP requests issued, in order
    log,         \* per call: how each finished attempt ended, in order
    waits,       \* per call: the backoff delays waited, in order
    reqOutcome,  \* per call: terminal outcomes of makeRequest, in order
    delivered    \* per call: what the caller (host) received, in order

procVars == <<proc, env, exitCode, stderr, token, options, config, registry>>
callVars == <<pc, entry, req, attempt, resp, timers, sent, log, waits, reqOutcome, delivered>>
vars == <<proc, env, exitCode, stderr, token, options, config, registry,
          pc, entry, req, attempt, resp, timers, sent, log, waits, reqOutcome, delivered>>

----------------------------------------------------------------------------
(* Bounds of the model *)

\* largest retries value passed to the constructor
MaxRetries == 3

\* most required parameters of one call that are given a rejected value
MaxRejected == 2

----------------------------------------------------------------------------
(* Text helpers (String.prototype.includes, startsWith, trim, number -> text) *)

Includes(s, sub) ==
    \E i \in 1..(Len(s) - Len(sub) + 1) : SubSeq(s, i, i + Len(sub) - 1) = sub

StartsWith(s, prefix) ==
    /\ Len(prefix) <= Len(s)
    /\ SubSeq(s, 1, Len(prefix)) = prefix

WhiteSpace == {" ", "\t", "\n", "\r"}

RECURSIVE TrimStart(_)
TrimStart(s) ==
    IF Len(s) > 0 /\ SubSeq(s, 1, 1) \in WhiteSpace
    THEN TrimStart(SubSeq(s, 2, Len(s)))
    ELSE s

RECURSIVE TrimEnd(_)
TrimEnd(s) ==
    IF Len(s) > 0 /\ SubSeq(s, Len(s), Len(s)) \in WhiteSpace
    THEN TrimEnd(SubSeq(s, 1, Len(s) - 1))
    ELSE s

Trim(s) == TrimEnd(TrimStart(s))

DigitChars == "0123456789"

RECURSIVE NumberToString(_)
NumberToString(n) ==
    IF n < 0 THEN "-" \o NumberToString(0 - n)
    ELSE IF n < 10 THEN SubSeq(DigitChars, n + 1, n + 1)
    ELSE NumberToString(n \div 10) \o SubSeq(DigitChars, (n % 10) + 1, (n % 10) + 1)

----------------------------------------------------------------------------
(* JavaScript values *)

Undefined == [t |-> "undefined"]
Null == [t |-> "null"]
Str(s) == [t |-> "string", s |-> s]
Num(n) == [t |-> "number", n |-> n]
\* an object literal; String(v) gives "[object Object]"
PlainObject == [t |-> "object"]
\* an object with no toString/valueOf to call, as Object.create(null)
BareObject == [t |-> "bareobject"]
\* an instance of Error (or of a subclass: name tells which)
ErrorObj(name, message) == [t |-> "Error", name |-> name, message |-> message]

IsError(v) == v.t = "Error"

\* ToBoolean
Truthy(v) ==
    CASE v.t = "undefined" -> FALSE
      [] v.t = "null" -> FALSE
      [] v.t = "string" -> Len(v.s) > 0
      [] v.t = "number" -> v.n # 0
      [] OTHER -> TRUE

\* completion of a call: a returned (resolved) value or a thrown (rejected) one
Return(v) == [kind |-> "return", value |-> v]
Throw(v) == [kind |-> "throw", value |-> v]

\* String(v): the text, or the TypeError the coercion throws
StringOf(v) ==
    CASE v.t = "string" -> Return(v.s)
      [] v.t = "number" -> Return(NumberToString(v.n))
      [] v.t = "undefined" -> Return("undefined")
      [] v.t = "null" -> Return("null")
      [] v.t = "object" -> Return("[object Object]")
      [] v.t = "Error" -> Return(IF v.message = "" THEN v.name
                                 ELSE v.name \o ": " \o v.message)
      [] v.t = "bareobject" ->
            Throw(ErrorObj("TypeError", "Cannot convert object to primitive value"))

----------------------------------------------------------------------------
(* The error boundary: withErrorHandling *)

TextBlock(text) == [type |-> "text", text |-> text]

\* the object literal returned by the catch block
ErrorResult(message) ==
    [isError |-> TRUE, content |-> <<TextBlock("Error: " \o message)>>]

\* Variant: the message taken by String(err) even from an Error.
ErrorMessageOf_AlwaysString(err) == StringOf(err)

\* const message = err instanceof Error ? err.message : String(err)
ErrorMessageOf(err) ==
    IF IsError(err) THEN Return(err.message) ELSE StringOf(err)

\* Variant: the wrapper marks what it passes through with isError: false.
withErrorHandling_Marking(h) ==
    IF h.kind = "return"
    THEN Return([x \in DOMAIN h.value \cup {"isError"} |->
                   IF x \in DOMAIN h.value THEN h.value[x] ELSE FALSE])
    ELSE LET m == ErrorMessageOf(h.value) IN
         IF m.kind = "throw" THEN Throw(m.value)
         ELSE Return(ErrorResult(m.value))

\* The wrapped handler, given how the handler completed: what the wrapped
\* handler's promise settles with.
withErrorHandling(h) ==
    IF h.kind = "return"
    THEN Return(h.value)
    ELSE LET m == ErrorMessageOf(h.value) IN
         IF m.kind = "throw" THEN Throw(m.value)
         ELSE Return(ErrorResult(m.value))

\* console.error(`[Tool Error] ${message}`): the lines the wrapper logs
ToolErrorLines(h) ==
    IF h.kind = "throw" /\ ErrorMessageOf(h.value).kind = "return"
    THEN <<"[Tool Error] " \o ErrorMessageOf(h.value).value>>
    ELSE <<>>

----------------------------------------------------------------------------
(* YandexWebmasterClient: constructor, retry classification, validation *)

API_BASE == "https://api.webmaster.yandex.net/v4"

DefaultTimeout == 30000
DefaultRetries == 3
DefaultRetryDelay == 1000

\* Variant: v ?? d, which lets a 0 through.
OrDefault_Nullish(v, d) == IF v.t \in {"undefined", "null"} THEN d ELSE v.n

\* v || d, for a numeric option that may be absent
OrDefault(v, d) == IF Truthy(v) THEN v.n ELSE d

\* this.config as the constructor sets it from its config argument
Construct(cfg) ==
    [timeout |-> OrDefault(cfg.timeout, DefaultTimeout),
     retries |-> OrDefault(cfg.retries, DefaultRetries),
     retryDelay |-> OrDefault(cfg.retryDelay, DefaultRetryDelay)]

\* Variant: only the status indicators are retryable, not the abort.
isRetryableError_StatusOnly(error) ==
    IF IsError(error)
    THEN \/ Includes(error.message, "500")
         \/ Includes(error.message, "502")
         \/ Includes(error.message, "503")
    ELSE FALSE

\* Variant: the text of a thrown value that is not an Error is searched too.
isRetryableError_ByText(error) ==
    LET text == IF IsError(error) THEN error.message
                ELSE IF StringOf(error).kind = "return" THEN StringOf(error).value
                ELSE ""
    IN \/ (IsError(error) /\ error.name = "AbortError")
       \/ Includes(text, "500")
       \/ Includes(text, "502")
       \/ Includes(text, "503")

isRetryableError(error) ==
    IF IsError(error)
    THEN \/ error.name = "AbortError"
         \/ Includes(error.message, "500")
         \/ Includes(error.message, "502")
         \/ Includes(error.message, "503")
    ELSE FALSE

\* Variant: the ceiling test off by one.
ShouldRetry_Inclusive(att, retries, error) ==
    att <= retries /\ isRetryableError(error)

\* the condition of the catch block's if: retry rather than rethrow
ShouldRetry(att, retries, error) ==
    att < retries /\ isRetryableError(error)

\* Variant: the same delay before every retry.
BackoffDelay_Constant(retryDelay, att) == retryDelay

\* Variant: a delay growing with the square of the attempt number.
BackoffDelay_Squared(retryDelay, att) == retryDelay * att * att

\* the argument given to this.delay before the retry
BackoffDelay(retryDelay, att) == retryDelay * att

\* params[field], undefined when the key is absent
Get(params, field) ==
    IF field \in DOMAIN params THEN params[field] ELSE Undefined

\* Variant: no trim, so that a whitespace-only string passes.
FieldRejected_NoTrim(v) == ~Truthy(v)

\* the test of validateRequired's if, for one field
FieldRejected(v) ==
    \/ ~Truthy(v)
    \/ (v.t = "string" /\ ~Truthy(Str(Trim(v.s))))

\* validateRequired: returns, or throws for the first rejected field
RECURSIVE validateRequired(_, _)
validateRequired(params, fields) ==
    IF fields = <<>> THEN Return(Undefined)
    ELSE IF FieldRejected(Get(params, Head(fields)))
    THEN Throw(ErrorObj("Error", Head(fields) \o " is required and must be non-empty"))
    ELSE validateRequired(params, Tail(fields))

----------------------------------------------------------------------------
(* JSON.parse and JSON.stringify, for the JSON texts the transport of this  *)
(* model answers with: a number literal, {}, [], null, true, false          *)

IsDigit(c) == \E i \in 1..10 : SubSeq(DigitChars, i, i) = c

DigitValue(c) == (CHOOSE i \in 1..10 : SubSeq(DigitChars, i, i) = c) - 1

\* length of the longest prefix of s made of digits
RECURSIVE DigitPrefixLen(_)
DigitPrefixLen(s) ==
    IF Len(s) > 0 /\ IsDigit(SubSeq(s, 1, 1))
    THEN 1 + DigitPrefixLen(SubSeq(s, 2, Len(s)))
    ELSE 0

RECURSIVE ParseDigits(_)
ParseDigits(s) ==
    IF Len(s) = 0 THEN 0
    ELSE 10 * ParseDigits(SubSeq(s, 1, Len(s) - 1))
         + DigitValue(SubSeq(s, Len(s), Len(s)))

IsNumberLiteral(s) ==
    /\ Len(s) > 0
    /\ DigitPrefixLen(s) = Len(s)
    /\ (Len(s) = 1 \/ SubSeq(s, 1, 1) # "0")

IsValidJSON(s) ==
    \/ IsNumberLiteral(s)
    \/ s \in {"{}", "[]", "null", "true", "false"}

\* position (from 0) of the character JSON.parse stops at in an invalid text
ErrorPosition(s) ==
    IF DigitPrefixLen(s) > 0 /\ DigitPrefixLen(s) < Len(s)
    THEN IF SubSeq(s, 1, 1) = "0" THEN 1 ELSE DigitPrefixLen(s)
    ELSE 0

\* The message of the SyntaxError is the engine's: older V8 names the token
\* and its position, newer V8 quotes the source text.
JSONEngines == {"position", "excerpt"}

SyntaxErrorMessage(s, engine) ==
    LET pos == ErrorPosition(s)
        c == SubSeq(s, pos + 1, pos + 1)
    IN IF s = "" THEN "Unexpected end of JSON input"
       ELSE IF engine = "position"
       THEN "Unexpected token " \o c \o " in JSON at position " \o NumberToString(pos)
       ELSE IF pos > 0
       THEN "Unexpected non-whitespace character after JSON at position "
            \o NumberToString(pos)
       ELSE "Unexpected token '" \o c \o "', \"" \o s \o "\" is not valid JSON"

\* JSON.parse(text), text non-empty
JSONParse(s, engine) ==
    CASE IsNumberLiteral(s) -> Return(Num(ParseDigits(s)))
      [] s = "{}" -> Return(PlainObject)
      [] s = "[]" -> Return([t |-> "array"])
      [] s = "null" -> Return(Null)
      [] s = "true" -> Return([t |-> "boolean", b |-> TRUE])
      [] s = "false" -> Return([t |-> "boolean", b |-> FALSE])
      [] OTHER -> Throw(ErrorObj("SyntaxError", SyntaxErrorMessage(s, engine)))

\* JSON.stringify(value, null, 2) of a value JSONParse returns
JSONStringify(v) ==
    CASE v.t = "number" -> NumberToString(v.n)
      [] v.t = "object" -> "{}"
      [] v.t = "array" -> "[]"
      [] v.t = "null" -> "null"
      [] v.t = "boolean" -> IF v.b THEN "true" ELSE "false"

\* Variant: the body is given to JSON.parse even when it is empty.
ParseBody_AlwaysParse(text, engine) == JSONParse(text, engine)

\* text ? JSON.parse(text) : {}
ParseBody(text, engine) ==
    IF Truthy(Str(text)) THEN JSONParse(text, engine) ELSE Return(PlainObject)

\* `Yandex Webmaster error ${response.status}: ${errorText}`
StatusError(status, errorText) ==
    ErrorObj("Error", "Yandex Webmaster error " \o NumberToString(status)
                      \o ": " \o errorText)

\* response.ok
ResponseOk(status) == status >= 200 /\ status <= 299

----------------------------------------------------------------------------
(* The client's operations and the tools registered for them.              *)
(* fields: the list given to validateRequired; optional: the other         *)
(* parameters; method: options.method || 'GET'.  tool: the name under which *)
(* src/index.ts registers the handler that calls the operation; wrapped:   *)
(* that handler is given to registerTool inside withErrorHandling(...).    *)

Operations == {
    [op |-> "getUserId", tool |-> "get_user_id", method |-> "GET",
     fields |-> <<>>,
     optional |-> <<>>, wrapped |-> TRUE],
    [op |-> "getHosts", tool |-> "get_hosts", method |-> "GET",
     fields |-> <<"userId">>,
     optional |-> <<>>, wrapped |-> TRUE],
    [op |-> "getHostInfo", tool |-> "get_host_info", method |-> "GET",
     fields |-> <<"userId", "hostId">>,
     optional |-> <<>>, wrapped |-> TRUE],
    [op |-> "addHost", tool |-> "add_host", method |-> "POST",
     fields |-> <<"userId", "hostUrl">>,
     optional |-> <<>>, wrapped |-> TRUE],
    [op |-> "deleteHost", tool |-> "delete_host", method |-> "DELETE",
     fields |-> <<"userId", "hostId">>,
     optional |-> <<>>, wrapped |-> TRUE],
    [op |-> "verifyHost", tool |-> "verify_host", method |-> "POST",
     fields |-> <<"userId", "hostId", "verificationType">>,
     optional |-> <<>>, wrapped |-> TRUE],
    [op |-> "getVerificationStatus", tool |-> "get_verification_status", method |-> "GET",
     fields |-> <<"userId", "hostId">>,
     optional |-> <<>>, wrapped |-> TRUE],
    [op |-> "getHostOwners", tool |-> "get_host_owners", method |-> "GET",
     fields |-> <<"userId", "hostId">>,
     optional |-> <<>>, wrapped |-> TRUE],
    [op |-> "getPopularQueries", tool |-> "get_popular_queries", method |-> "GET",
     fields |-> <<"userId", "hostId", "dateFrom", "dateTo", "orderBy">>,
     optional |-> <<"queryIndicator", "limit", "offset">>, wrapped |-> TRUE],
    [op |-> "getQueryHistory", tool |-> "get_query_history", method |-> "GET",
     fields |-> <<"userId", "hostId", "dateFrom", "dateTo">>,
     optional |-> <<>>, wrapped |-> TRUE],
    [op |-> "getSingleQueryHistory", tool |-> "get_single_query_history", method |-> "GET",
     fields |-> <<"userId", "hostId", "queryText", "dateFrom", "dateTo">>,
     optional |-> <<>>, wrapped |-> TRUE],
    [op |-> "getIndexingSummary", tool |-> "get_indexing_summary", method |-> "GET",
     fields |-> <<"userId", "hostId">>,
     optional |-> <<>>, wrapped |-> TRUE],
    [op |-> "getIndexingHistory", tool |-> "get_indexing_history", method |-> "GET",
     fields |-> <<"userId", "hostId", "dateFrom", "dateTo">>,
     optional |-> <<>>, wrapped |-> TRUE],
    [op |-> "getIndexingSamples", tool |-> "get_indexing_samples", method |-> "GET",
     fields |-> <<"userId", "hostId">>,
     optional |-> <<"limit", "offset">>, wrapped |-> TRUE],
    [op |-> "requestRecrawl", tool |-> "request_recrawl", method |-> "POST",
     fields |-> <<"userId", "hostId", "pageUrl">>,
     optional |-> <<>>, wrapped |-> TRUE],
    [op |-> "getRecrawlTasks", tool |-> "get_recrawl_tasks", method |-> "GET",
     fields |-> <<"userId", "hostId">>,
     optional |-> <<"limit", "offset">>, wrapped |-> TRUE],
    [op |-> "getRecrawlTaskStatus", tool |-> "get_recrawl_task_status", method |-> "GET",
     fields |-> <<"userId", "hostId", "taskId">>,
     optional |-> <<>>, wrapped |-> TRUE],
    [op |-> "getRecrawlQuota", tool |-> "get_recrawl_quota", method |-> "GET",
     fields |-> <<"userId", "hostId">>,
     optional |-> <<>>, wrapped |-> TRUE],
    [op |-> "getSitemaps", tool |-> "get_sitemaps", method |-> "GET",
     fields |-> <<"userId", "hostId">>,
     optional |-> <<>>, wrapped |-> TRUE],
    [op |-> "getSitemapInfo", tool |-> "get_sitemap_info", method |-> "GET",
     fields |-> <<"userId", "hostId", "sitemapId">>,
     optional |-> <<>>, wrapped |-> TRUE],
    [op |-> "addSitemap", tool |-> "add_sitemap", method |-> "POST",
     fields |-> <<"userId", "hostId", "sitemapUrl">>,
     optional |-> <<>>, wrapped |-> TRUE],
    [op |-> "deleteSitemap", tool |-> "delete_sitemap", method |-> "DELETE",
     fields |-> <<"userId", "hostId", "sitemapId">>,
     optional |-> <<>>, wrapped |-> TRUE],
    [op |-> "getInternalLinks", tool |-> "get_internal_links", method |-> "GET",
     fields |-> <<"userId", "hostId">>,
     optional |-> <<"limit", "offset">>, wrapped |-> TRUE],
    [op |-> "getExternalLinks", tool |-> "get_external_links", method |-> "GET",
     fields |-> <<"userId", "hostId">>,
     optional |-> <<"limit", "offset">>, wrapped |-> TRUE],
    [op |-> "getSqiHistory", tool |-> "get_sqi_history", method |-> "GET",
     fields |-> <<"userId", "hostId", "dateFrom", "dateTo">>,
     optional |-> <<>>, wrapped |-> TRUE],
    [op |-> "getRssFeeds", tool |-> "get_rss_feeds", method |-> "GET",
     fields |-> <<"userId", "hostId">>,
     optional |-> <<>>, wrapped |-> TRUE],
    [op |-> "addRssFeed", tool |-> "add_rss_feed", method |-> "POST",
     fields |-> <<"userId", "hostId", "feedUrl">>,
     optional |-> <<>>, wrapped |-> TRUE],
    [op |-> "getRssFeedInfo", tool |-> "get_rss_feed_info", method |-> "GET",
     fields |-> <<"userId", "hostId", "feedId">>,
     optional |-> <<>>, wrapped |-> TRUE],
    [op |-> "deleteRssFeed", tool |-> "delete_rss_feed", method |-> "DELETE",
     fields |-> <<"userId", "hostId", "feedId">>,
     optional |-> <<>>, wrapped |-> TRUE],
    [op |-> "getSiteDiagnostics", tool |-> "get_site_diagnostics", method |-> "GET",
     fields |-> <<"userId", "hostId">>,
     optional |-> <<>>, wrapped |-> TRUE]
}

OperationOf(name) == CHOOSE o \in Operations : o.op = name

ToolOperation(tool) == CHOOSE o \in Operations : o.tool = tool

\* the names given to server.registerTool
ToolNames == {o.tool : o \in Operations}

\* the names in the first column of the README's Available Tools table
ReadmeTools ==
    {"get_user_id", "get_hosts", "get_host_info", "add_host", "delete_host",
     "verify_host", "get_verification_status", "get_host_owners",
     "get_popular_queries", "get_query_history", "get_single_query_history",
     "get_indexing_summary", "get_indexing_history", "get_indexing_samples",
     "request_recrawl", "get_recrawl_quota", "get_recrawl_tasks",
     "get_recrawl_task_status", "get_sitemaps", "get_sitemap_info",
     "add_sitemap", "delete_sitemap", "get_external_links",
     "get_internal_links", "get_sqi_history", "get_site_diagnostics",
     "get_rss_feeds", "add_rss_feed", "delete_rss_feed"}

\* Variant: one handler registered without the error boundary.
ToolIsWrapped_OneBare(tool) == tool # "get_rss_feed_info"

\* registerTool(name, ..., withErrorHandling(handler)): is the handler wrapped
ToolIsWrapped(tool) == ToolOperation(tool).wrapped

\* the parameters of an operation, in order
ParamsOf(o) == o.fields \o o.optional

Range(q) == {q[i] : i \in 1..Len(q)}

----------------------------------------------------------------------------
(* URLs: hostUrl, URLSearchParams and the URL and options of each operation *)

hostUrl(userId, hostId, path) ==
    API_BASE \o "/user/" \o userId \o "/hosts/" \o hostId \o path

\* characters application/x-www-form-urlencoded leaves as they are
FormSafe ==
    "ABCDEFGHIJKLMNOPQRSTUVWXYZabcdefghijklmnopqrstuvwxyz0123456789*-._"

\* percent-encoding of the other characters the inputs of this model hold
PercentCode(c) ==
    CASE c = ":" -> "%3A"
      [] c = "/" -> "%2F"
      [] c = "?" -> "%3F"
      [] c = "&" -> "%26"
      [] c = "=" -> "%3D"
      [] c = "\t" -> "%09"
      [] c = "\n" -> "%0A"
      [] c = "\r" -> "%0D"

RECURSIVE FormEncode(_)
FormEncode(s) ==
    IF Len(s) = 0 THEN ""
    ELSE LET c == SubSeq(s, 1, 1)
             rest == FormEncode(SubSeq(s, 2, Len(s)))
         IN IF Includes(FormSafe, c) THEN c \o rest
            ELSE IF c = " " THEN "+" \o rest
            ELSE PercentCode(c) \o rest

\* URLSearchParams.set on a list of <<key, value>> pairs
RECURSIVE ParamsSet(_, _, _)
ParamsSet(pairs, key, value) ==
    IF pairs = <<>> THEN <<(<<key, value>>)>>
    ELSE IF Head(pairs)[1] = key THEN <<(<<key, value>>)>> \o Tail(pairs)
    ELSE <<Head(pairs)>> \o ParamsSet(Tail(pairs), key, value)

\* URLSearchParams.toString
RECURSIVE ParamsToString(_)
ParamsToString(pairs) ==
    IF pairs = <<>> THEN ""
    ELSE FormEncode(Head(pairs)[1]) \o "=" \o FormEncode(Head(pairs)[2])
         \o (IF Len(pairs) > 1 THEN "&" \o ParamsToString(Tail(pairs)) ELSE "")

\* Variant: the key set whenever the field is not undefined, a 0 included.
SetIf_Defined(pairs, v, key, text) ==
    IF v.t # "undefined" THEN ParamsSet(pairs, key, text) ELSE pairs

\* Variant: the key set whether or not the field was given.
SetIf_Always(pairs, v, key, text) == ParamsSet(pairs, key, text)

\* if (v) queryParams.set(key, text)
SetIf(pairs, v, key, text) ==
    IF Truthy(v) THEN ParamsSet(pairs, key, text) ELSE pairs

\* the limit/offset part shared by the paginated operations
PageParams(pairs, a) ==
    LET withLimit == SetIf(pairs, a.limit, "limit",
                           IF a.limit.t = "number" THEN NumberToString(a.limit.n) ELSE "")
    IN SetIf(withLimit, a.offset, "offset",
             IF a.offset.t = "number" THEN NumberToString(a.offset.n) ELSE "")

\* `${path}${queryString ? '?' + queryString : ''}`
OptionalQuery(path, pairs) ==
    IF Truthy(Str(ParamsToString(pairs)))
    THEN path \o "?" \o ParamsToString(pairs)
    ELSE path

DateRange(a) == <<(<<"date_from", a.dateFrom.s>>), (<<"date_to", a.dateTo.s>>)>>

PopularQueryParams(a) ==
    LET base == DateRange(a) \o <<(<<"order_by", a.orderBy.s>>)>>
        withIndicator == SetIf(base, a.queryIndicator, "query_indicator",
                               IF a.queryIndicator.t = "string"
                               THEN a.queryIndicator.s ELSE "")
    IN PageParams(withIndicator, a)

\* the url an operation gives to makeRequest (its arguments passed validation)
UrlOf(op, a) ==
    CASE op = "getUserId" -> API_BASE \o "/user"
      [] op \in {"getHosts", "addHost"} ->
            API_BASE \o "/user/" \o a.userId.s \o "/hosts"
      [] op \in {"getHostInfo", "deleteHost"} -> hostUrl(a.userId.s, a.hostId.s, "")
      [] op \in {"verifyHost", "getVerificationStatus"} ->
            hostUrl(a.userId.s, a.hostId.s, "/verification")
      [] op = "getHostOwners" -> hostUrl(a.userId.s, a.hostId.s, "/owners")
      [] op = "getPopularQueries" ->
            hostUrl(a.userId.s, a.hostId.s,
                    "/search-queries/popular?" \o ParamsToString(PopularQueryParams(a)))
      [] op = "getQueryHistory" ->
            hostUrl(a.userId.s, a.hostId.s,
                    "/search-queries/history/all?" \o ParamsToString(DateRange(a)))
      [] op = "getSingleQueryHistory" ->
            hostUrl(a.userId.s, a.hostId.s,
                    "/search-queries/history?"
                    \o ParamsToString(<<(<<"query_text", a.queryText.s>>)>> \o DateRange(a)))
      [] op = "getIndexingSummary" -> hostUrl(a.userId.s, a.hostId.s, "/summary")
      [] op = "getIndexingHistory" ->
            hostUrl(a.userId.s, a.hostId.s,
                    "/indexing/history?" \o ParamsToString(DateRange(a)))
      [] op = "getIndexingSamples" ->
            hostUrl(a.userId.s, a.hostId.s,
                    OptionalQuery("/indexing/samples", PageParams(<<>>, a)))
      [] op = "requestRecrawl" -> hostUrl(a.userId.s, a.hostId.s, "/recrawl")
      [] op = "getRecrawlTasks" ->
            hostUrl(a.userId.s, a.hostId.s,
                    OptionalQuery("/recrawl/tasks", PageParams(<<>>, a)))
      [] op = "getRecrawlTaskStatus" ->
            hostUrl(a.userId.s, a.hostId.s, "/recrawl/tasks/" \o a.taskId.s)
      [] op = "getRecrawlQuota" -> hostUrl(a.userId.s, a.hostId.s, "/recrawl/quota")
      [] op = "getSitemaps" -> hostUrl(a.userId.s, a.hostId.s, "/sitemaps")
      [] op = "getSitemapInfo" ->
            hostUrl(a.userId.s, a.hostId.s, "/sitemaps/" \o a.sitemapId.s)
      [] op = "addSitemap" -> hostUrl(a.userId.s, a.hostId.s, "/user-added-sitemaps")
      [] op = "deleteSitemap" ->
            hostUrl(a.userId.s, a.hostId.s, "/user-added-sitemaps/" \o a.sitemapId.s)
      [] op = "getInternalLinks" ->
            hostUrl(a.userId.s, a.hostId.s,
                    OptionalQuery("/links/internal/samples", PageParams(<<>>, a)))
      [] op = "getExternalLinks" ->
            hostUrl(a.userId.s, a.hostId.s,
                    OptionalQuery("/links/external/samples", PageParams(<<>>, a)))
      [] op = "getSqiHistory" ->
            hostUrl(a.userId.s, a.hostId.s,
                    "/sqi/history?" \o ParamsToString(DateRange(a)))
      [] op \in {"getRssFeeds", "addRssFeed"} ->
            hostUrl(a.userId.s, a.hostId.s, "/rss-feeds")
      [] op \in {"getRssFeedInfo", "deleteRssFeed"} ->
            hostUrl(a.userId.s, a.hostId.s, "/rss-feeds/" \o a.feedId.s)
      [] op = "getSiteDiagnostics" -> hostUrl(a.userId.s, a.hostId.s, "/diagnostics")

\* JSON.stringify of the one-key body object an operation gives, when it gives one
JSONObject1(key, value) == "{\"" \o key \o "\":\"" \o value \o "\"}"

\* options.body as fetch gets it: <<>> when the operation gives no body
BodyOf(op, a) ==
    CASE op = "addHost" -> <<JSONObject1("host_url", a.hostUrl.s)>>
      [] op = "verifyHost" -> <<JSONObject1("verification_type", a.verificationType.s)>>
      [] op = "requestRecrawl" -> <<JSONObject1("url", a.pageUrl.s)>>
      [] op = "addSitemap" -> <<JSONObject1("url", a.sitemapUrl.s)>>
      [] op = "addRssFeed" -> <<JSONObject1("url", a.feedUrl.s)>>
      [] OTHER -> <<>>

\* the arguments of makeRequest for an operation
RequestOf(op, a) ==
    [url |-> UrlOf(op, a), method |-> OperationOf(op).method, body |-> BodyOf(op, a)]

\* Variant: the token sent under the Bearer scheme.
FetchOptions_Bearer(tok, r) ==
    [url |-> r.url,
     method |-> r.method,
     headers |-> [Authorization |-> "Bearer " \o tok,
                  ContentType |-> "application/json"],
     body |-> r.body]

\* fetchOptions of one physical attempt (without the abort signal)
FetchOptions(tok, r) ==
    [url |-> r.url,
     method |-> r.method,
     headers |-> [Authorization |-> "OAuth " \o tok,
                  ContentType |-> "application/json"],
     body |-> r.body]

----------------------------------------------------------------------------
(* Inputs *)

\* a valid value of each string parameter
Sample(field) ==
    CASE field = "userId" -> "42"
      [] field = "hostId" -> "https:example.com:443"
      [] field = "hostUrl" -> "https://example.com"
      [] field = "verificationType" -> "META_TAG"
      [] field = "dateFrom" -> "2024-01-01"
      [] field = "dateTo" -> "2024-01-31"
      [] field = "orderBy" -> "TOTAL_CLICKS"
      [] field = "queryIndicator" -> "TOTAL_SHOWS"
      [] field = "queryText" -> "buy sofa"
      [] field = "pageUrl" -> "https://example.com/page"
      [] field = "taskId" -> "t1"
      [] field = "sitemapId" -> "s1"
      [] field = "sitemapUrl" -> "https://example.com/sitemap.xml"
      [] field = "feedId" -> "f1"
      [] field = "feedUrl" -> "https://example.com/rss"

NumberParams == {"limit", "offset"}

\* The values a parameter may take. who = "client": what a direct caller of
\* the client class passes; it may pass anything for a required parameter and
\* leaves the optional ones out. who = "tool": what reaches a tool handler,
\* the input schema (z.string(), z.number(), .optional()) having let only
\* strings, numbers and absent optionals through.
ValuesFor(who, o, field) ==
    IF field \in Range(o.optional) /\ who = "client" THEN {Undefined}
    ELSE IF field \in NumberParams THEN {Undefined, Num(0), Num(5)}
    ELSE IF field \in Range(o.optional) THEN {Undefined, Str(Sample(field))}
    ELSE IF who = "tool" THEN {Str(""), Str(" \t"), Str(Sample(field))}
    ELSE {Undefined, Null, Str(""), Str(" \t"), Str(Sample(field))}

\* all argument records: one value for each of the parameters in fields, at
\* most `budget` of the required ones being values validateRequired rejects
RECURSIVE ArgsOver(_, _, _, _)
ArgsOver(who, o, fields, budget) ==
    IF fields = <<>> THEN {<<>>}
    ELSE UNION {
           LET cost == IF Head(fields) \in Range(o.fields) /\ FieldRejected(v)
                       THEN 1 ELSE 0
           IN IF cost > budget THEN {}
              ELSE {(Head(fields) :> v) @@ rest :
                      rest \in ArgsOver(who, o, Tail(fields), budget - cost)}
           : v \in ValuesFor(who, o, Head(fields))}

ClientArgs(o) == ArgsOver("client", o, ParamsOf(o), MaxRejected)
ToolArgs(o) == ArgsOver("tool", o, ParamsOf(o), MaxRejected)

\* the config argument of the constructor, one for each configuration it
\* can leave in this.config: an option absent or a number
ConfigInputs ==
    [timeout : {Undefined},
     retries : {Undefined} \cup {Num(n) : n \in (1..MaxRetries) \ {DefaultRetries}},
     retryDelay : {Undefined, Num(7)}]

\* the config argument in all its forms: each option absent, 0, or a number
\* (a negative one too for retries)
AllConfigInputs ==
    [timeout : {Undefined, Num(0), Num(50)},
     retries : {Undefined, Num(-1)} \cup {Num(n) : n \in 0..MaxRetries},
     retryDelay : {Undefined, Num(0), Num(7)}]

\* process.env.YANDEX_API_KEY
EnvTokens == {Undefined, Str(""), Str("y0_token")}

\* how a handler given to withErrorHandling may complete
SampleResults ==
    {[content |-> <<TextBlock("ok")>>],
     [content |-> <<TextBlock("a"), TextBlock("b")>>],
     [content |-> <<TextBlock("Error: looks like one")>>, isError |-> FALSE]}

ThrownValues ==
    {ErrorObj("Error", "boom"), ErrorObj("Error", "something failed"),
     ErrorObj("TypeError", ""), Str("x"), Str("string error"), Str(""),
     Num(0), Num(404), Null, Undefined, PlainObject, BareObject}

HandlerCompletions ==
    {Return(r) : r \in SampleResults} \cup {Throw(v) : v \in ThrownValues}

\* what a catch block may be given: the errors makeRequest produces, and
\* thrown values that are not Error objects
FailureValues ==
    {ErrorObj("AbortError", "This operation was aborted"),
     ErrorObj("TypeError", "fetch failed"),
     ErrorObj("TypeError", "terminated"),
     ErrorObj("SyntaxError", "Unexpected end of JSON input"),
     ErrorObj("SyntaxError", "Unexpected token 'x', \"x500\" is not valid JSON"),
     ErrorObj("Error", "Yandex Webmaster error 500: "),
     ErrorObj("Error", "Yandex Webmaster error 502: oops"),
     ErrorObj("Error", "Yandex Webmaster error 503: {}"),
     ErrorObj("Error", "Yandex Webmaster error 404: oops"),
     ErrorObj("Error", "Yandex Webmaster error 404: x500"),
     ErrorObj("Error", "Yandex Webmaster error 429: 50 requests, 3 left"),
     Str("503"), Str("AbortError"), Str("timeout"), Num(500), Num(0),
     Null, Undefined, PlainObject, BareObject}

\* what the transport may answer
Statuses == {200, 404, 502, 503}
Bodies == {"", "{}", "12", "oops", "x500"}

----------------------------------------------------------------------------
(* State *)

NoEntry == [kind |-> "none"]
NoRequest == [url |-> "", method |-> "", body |-> <<>>]
NoConfig == [timeout |-> 0, retries |-> 0, retryDelay |-> 0]
NoResponse == [status |-> 0, text |-> ""]
NoOptions == [timeout |-> Undefined, retries |-> Undefined, retryDelay |-> Undefined]

Calls == DOMAIN pc

InitCalls(C) ==
    /\ pc = [c \in C |-> "idle"]
    /\ entry = [c \in C |-> NoEntry]
    /\ req = [c \in C |-> NoRequest]
    /\ attempt = [c \in C |-> 0]
    /\ resp = [c \in C |-> NoResponse]
    /\ timers = [c \in C |-> {}]
    /\ sent = [c \in C |-> <<>>]
    /\ log = [c \in C |-> <<>>]
    /\ waits = [c \in C |-> <<>>]
    /\ reqOutcome = [c \in C |-> <<>>]
    /\ delivered = [c \in C |-> <<>>]

\* src/index.ts about to run, with some environment
InitServer ==
    /\ proc = "loading"
    /\ env \in EnvTokens
    /\ exitCode = -1
    /\ stderr = <<>>
    /\ token = ""
    /\ options = NoOptions
    /\ config = NoConfig
    /\ registry = <<>>

\* the client class and withErrorHandling used directly, as the tests do:
\* new YandexWebmasterClient(token, cfg)
InitLibrary ==
    /\ proc = "library"
    /\ env = Undefined
    /\ exitCode = -1
    /\ stderr = <<>>
    /\ token = "y0_token"
    /\ options \in ConfigInputs
    /\ config = Construct(options)
    /\ registry = <<>>

Init == (InitServer \/ InitLibrary) /\ InitCalls({1})

----------------------------------------------------------------------------
(* Startup of src/index.ts *)

\* Variant: only an unset variable counts as a missing token.
TokenMissing_OnlyUnset(tok) == tok.t = "undefined"

\* if (!token)
TokenMissing(tok) == ~Truthy(tok)

\* The module body: the token test, the client, the registrations, and
\* main() up to its await.
Load ==
    /\ proc = "loading"
    /\ IF TokenMissing(env)
       THEN /\ stderr' = Append(stderr, "Error: YANDEX_API_KEY environment variable is required")
            /\ exitCode' = 1
            /\ proc' = "exited"
            /\ UNCHANGED <<token, config, registry>>
       ELSE /\ token' = env.s
            /\ config' = Construct(NoOptions)
            /\ registry' = [t \in ToolNames |-> ToolIsWrapped(t)]
            /\ proc' = "connecting"
            /\ UNCHANGED <<stderr, exitCode>>
    /\ UNCHANGED <<env, options, callVars>>

\* server.connect(transport) resolves
Connected ==
    /\ proc = "connecting"
    /\ stderr' = Append(stderr, "Yandex Webmaster MCP Server started on stdin/stdout")
    /\ proc' = "serving"
    /\ UNCHANGED <<env, exitCode, token, options, config, registry, callVars>>

\* server.connect(transport) rejects: main().catch
ConnectFailed ==
    /\ proc = "connecting"
    /\ stderr' = Append(stderr, "Fatal error: ")
    /\ exitCode' = 1
    /\ proc' = "exited"
    /\ UNCHANGED <<env, token, options, config, registry, callVars>>

----------------------------------------------------------------------------
(* A call: from the caller's invocation to what the caller receives *)

\* The tool handler around the client call: the content it returns, or the
\* client's error going through it.
HandlerCompletion(clientOutcome) ==
    IF clientOutcome.kind = "return"
    THEN Return([content |-> <<TextBlock(JSONStringify(clientOutcome.value))>>])
    ELSE clientOutcome

\* what the caller receives and what is logged, given how the client method
\* (or, for a handler given directly to withErrorHandling, the handler) ended
ReceivedBy(e, outcome) ==
    CASE e.kind = "client" -> outcome
      [] e.kind = "handler" -> withErrorHandling(outcome)
      [] e.kind = "tool" ->
            IF registry[e.tool]
            THEN withErrorHandling(HandlerCompletion(outcome))
            ELSE HandlerCompletion(outcome)

LoggedBy(e, outcome) ==
    CASE e.kind = "client" -> <<>>
      [] e.kind = "handler" -> ToolErrorLines(outcome)
      [] e.kind = "tool" ->
            IF registry[e.tool] THEN ToolErrorLines(HandlerCompletion(outcome)) ELSE <<>>

\* the call of c ends: the caller receives the result
Settle(c, e, outcome) ==
    /\ pc' = [pc EXCEPT ![c] = "done"]
    /\ delivered' = [delivered EXCEPT ![c] = Append(@, ReceivedBy(e, outcome))]
    /\ stderr' = stderr \o LoggedBy(e, outcome)

\* makeRequest returns or throws to the operation that called it
Finish(c, outcome) ==
    /\ reqOutcome' = [reqOutcome EXCEPT ![c] = Append(@, outcome)]
    /\ Settle(c, entry[c], outcome)

\* Variant: the attempt counter kept in a field of the client, one for all
\* the calls under way.
IssueAttempt_SharedCounter(c, r, att) ==
    /\ attempt' = [d \in DOMAIN attempt |-> att]
    /\ timers' = [timers EXCEPT ![c] = @ \cup {att}]
    /\ sent' = [sent EXCEPT ![c] = Append(@, FetchOptions(token, r))]

\* one physical attempt is issued: controller, timer, fetch
IssueAttempt(c, r, att) ==
    /\ attempt' = [attempt EXCEPT ![c] = att]
    /\ timers' = [timers EXCEPT ![c] = @ \cup {att}]
    /\ sent' = [sent EXCEPT ![c] = Append(@, FetchOptions(token, r))]

\* an operation of the client is called with arguments a
CallOperation(c, e) ==
    LET o == OperationOf(e.op)
        v == validateRequired(e.args, o.fields)
    IN /\ entry' = [entry EXCEPT ![c] = e]
       /\ IF v.kind = "throw"
          THEN /\ Settle(c, e, v)
               /\ UNCHANGED <<req, attempt, timers, sent, reqOutcome>>
          ELSE /\ req' = [req EXCEPT ![c] = RequestOf(e.op, e.args)]
               /\ IssueAttempt(c, req'[c], 1)
               /\ pc' = [pc EXCEPT ![c] = "fetching"]
               /\ UNCHANGED <<reqOutcome, delivered, stderr>>
       /\ UNCHANGED <<proc, env, exitCode, token, options, config, registry, resp, log, waits>>

\* the host invokes a registered tool
InvokeTool(c) ==
    /\ proc = "serving"
    /\ pc[c] = "idle"
    /\ \E o \in Operations : \E a \in ToolArgs(o) :
          CallOperation(c, [kind |-> "tool", tool |-> o.tool, op |-> o.op, args |-> a])

\* a method of the client is called directly
CallClient(c) ==
    /\ proc = "library"
    /\ pc[c] = "idle"
    /\ \E o \in Operations : \E a \in ClientArgs(o) :
          CallOperation(c, [kind |-> "client", op |-> o.op, args |-> a])

\* withErrorHandling(handler)(params), the handler completing as h
CallWrapped(c) ==
    /\ proc = "library"
    /\ pc[c] = "idle"
    /\ \E h \in HandlerCompletions :
          /\ entry' = [entry EXCEPT ![c] = [kind |-> "handler", completion |-> h]]
          /\ Settle(c, [kind |-> "handler", completion |-> h], h)
    /\ UNCHANGED <<proc, env, exitCode, token, options, config, registry,
                   req, attempt, resp, timers, sent, log, waits, reqOutcome>>

\* isRetryableError(error) and the test of the catch block, applied to a
\* thrown value and an attempt number
Classify(c) ==
    /\ proc = "library"
    /\ pc[c] = "idle"
    /\ \E error \in FailureValues : \E att \in 1..MaxRetries :
          /\ entry' = [entry EXCEPT ![c] =
                         [kind |-> "classify", error |-> error, attempt |-> att]]
          /\ delivered' = [delivered EXCEPT ![c] =
                <<Return([retryable |-> isRetryableError(error),
                          retried |-> ShouldRetry(att, config.retries, error)])>>]
    /\ pc' = [pc EXCEPT ![c] = "done"]
    /\ UNCHANGED <<procVars, req, attempt, resp, timers, sent, log, waits, reqOutcome>>

----------------------------------------------------------------------------
(* makeRequest *)

\* Variant: the delay awaited before the test, so also before the rethrow.
Catch_DelaysFirst(c, error, r) ==
    /\ waits' = [waits EXCEPT ![c] =
                    Append(@, BackoffDelay(config.retryDelay, attempt[c]))]
    /\ IF ShouldRetry(attempt[c], config.retries, error)
       THEN /\ pc' = [pc EXCEPT ![c] = "backoff"]
            /\ resp' = [resp EXCEPT ![c] = NoResponse]
            /\ UNCHANGED <<reqOutcome, delivered, stderr>>
       ELSE /\ Finish(c, Throw(error))
            /\ resp' = [resp EXCEPT ![c] = r]

\* the catch block, for the error of the attempt that just ended; r is the
\* response that attempt had received, which the retry leaves behind
Catch(c, error, r) ==
    IF ShouldRetry(attempt[c], config.retries, error)
    THEN /\ waits' = [waits EXCEPT ![c] =
                        Append(@, BackoffDelay(config.retryDelay, attempt[c]))]
         /\ pc' = [pc EXCEPT ![c] = "backoff"]
         /\ resp' = [resp EXCEPT ![c] = NoResponse]
         /\ UNCHANGED <<reqOutcome, delivered, stderr>>
    ELSE /\ Finish(c, Throw(error))
         /\ resp' = [resp EXCEPT ![c] = r]
         /\ UNCHANGED waits

\* Variant: the abort is felt even when the fetch it was armed for is over.
AbortsFetch_AnyTime(c, k) == attempt[c] = k

\* does the timer armed for attempt k abort the fetch of call c
AbortsFetch(c, k) == pc[c] = "fetching" /\ attempt[c] = k

\* Variant: the timer left armed when the response arrives.
ReceiveResponse_KeepsTimer(c) ==
    /\ pc[c] = "fetching"
    /\ \E status \in Statuses :
          resp' = [resp EXCEPT ![c] = [status |-> status, text |-> ""]]
    /\ pc' = [pc EXCEPT ![c] = "body"]
    /\ UNCHANGED <<procVars, entry, req, attempt, timers, sent, log, waits,
                   reqOutcome, delivered>>

\* fetch resolves with a response; clearTimeout(timeoutId)
ReceiveResponse(c) ==
    /\ pc[c] = "fetching"
    /\ \E status \in Statuses :
          resp' = [resp EXCEPT ![c] = [status |-> status, text |-> ""]]
    /\ timers' = [timers EXCEPT ![c] = @ \ {attempt[c]}]
    /\ pc' = [pc EXCEPT ![c] = "body"]
    /\ UNCHANGED <<procVars, entry, req, attempt, sent, log, waits, reqOutcome, delivered>>

\* fetch rejects for a reason other than the abort; the timer stays armed
FetchFails(c) ==
    /\ pc[c] = "fetching"
    /\ log' = [log EXCEPT ![c] = Append(@, "network")]
    /\ Catch(c, ErrorObj("TypeError", "fetch failed"), NoResponse)
    /\ UNCHANGED <<proc, env, exitCode, token, options, config, registry,
                   entry, req, attempt, timers, sent>>

\* Variant: one abort controller kept in a field of the client, so that a
\* timer going off aborts whichever fetch is pending.
TimeoutFires_SharedController(c) ==
    \E k \in timers[c] :
       /\ timers' = [timers EXCEPT ![c] = @ \ {k}]
       /\ IF \E d \in Calls : pc[d] = "fetching"
          THEN \E d \in Calls :
                  /\ pc[d] = "fetching"
                  /\ log' = [log EXCEPT ![d] = Append(@, "abort")]
                  /\ Catch(d, ErrorObj("AbortError", "This operation was aborted"),
                           NoResponse)
          ELSE UNCHANGED <<pc, resp, log, waits, reqOutcome, delivered, stderr>>
       /\ UNCHANGED <<proc, env, exitCode, token, options, config, registry,
                      entry, req, attempt, sent>>

\* the timer of attempt k fires: controller.abort()
TimeoutFires(c) ==
    \E k \in timers[c] :
       /\ timers' = [timers EXCEPT ![c] = @ \ {k}]
       /\ IF AbortsFetch(c, k)
          THEN /\ log' = [log EXCEPT ![c] = Append(@, "abort")]
               /\ Catch(c, ErrorObj("AbortError", "This operation was aborted"),
                        NoResponse)
          ELSE UNCHANGED <<pc, resp, log, waits, reqOutcome, delivered, stderr>>
       /\ UNCHANGED <<proc, env, exitCode, token, options, config, registry,
                      entry, req, attempt, sent>>

\* response.text() resolves: the status error, or the parsed body
ReadBody(c) ==
    /\ pc[c] = "body"
    /\ log' = [log EXCEPT ![c] = Append(@, NumberToString(resp[c].status))]
    /\ \E text \in Bodies :
          LET r == [status |-> resp[c].status, text |-> text] IN
          IF ~ResponseOk(r.status)
          THEN Catch(c, StatusError(r.status, text), r)
          ELSE \E engine \in JSONEngines :
                  LET parsed == ParseBody(text, engine) IN
                  IF parsed.kind = "throw"
                  THEN Catch(c, parsed.value, r)
                  ELSE /\ Finish(c, parsed)
                       /\ resp' = [resp EXCEPT ![c] = r]
                       /\ UNCHANGED waits
    /\ UNCHANGED <<proc, env, exitCode, token, options, config, registry,
                   entry, req, attempt, timers, sent>>

\* response.text() rejects: the connection ended while the body was read
BodyFails(c) ==
    /\ pc[c] = "body"
    /\ log' = [log EXCEPT ![c] = Append(@, "body")]
    /\ Catch(c, ErrorObj("TypeError", "terminated"), resp[c])
    /\ UNCHANGED <<proc, env, exitCode, token, options, config, registry,
                   entry, req, attempt, timers, sent>>

\* Variant: the retry made with the url alone, the options not passed on.
BackoffElapsed_DropsOptions(c) ==
    /\ pc[c] = "backoff"
    /\ IssueAttempt(c, [url |-> req[c].url, method |-> "GET", body |-> <<>>],
                    attempt[c] + 1)
    /\ pc' = [pc EXCEPT ![c] = "fetching"]
    /\ UNCHANGED <<procVars, entry, req, resp, log, waits, reqOutcome, delivered>>

\* Variant: the next attempt is issued without awaiting the end of the one
\* before it (a hedged request).
BackoffElapsed_Eager(c) ==
    /\ pc[c] \in {"backoff", "fetching"}
    /\ attempt[c] < config.retries
    /\ IssueAttempt(c, req[c], attempt[c] + 1)
    /\ pc' = [pc EXCEPT ![c] = "fetching"]
    /\ UNCHANGED <<procVars, entry, req, resp, log, waits, reqOutcome, delivered>>

\* the delay ends: return this.makeRequest(url, options, attempt + 1)
BackoffElapsed(c) ==
    /\ pc[c] = "backoff"
    /\ IssueAttempt(c, req[c], attempt[c] + 1)
    /\ pc' = [pc EXCEPT ![c] = "fetching"]
    /\ UNCHANGED <<procVars, entry, req, resp, log, waits, reqOutcome, delivered>>

----------------------------------------------------------------------------
(* Specification *)

Next ==
    \/ Load
    \/ Connected
    \/ ConnectFailed
    \/ \E c \in Calls : InvokeTool(c)
    \/ \E c \in Calls : CallClient(c)
    \/ \E c \in Calls : CallWrapped(c)
    \/ \E c \in Calls : Classify(c)
    \/ \E c \in Calls : ReceiveResponse(c)
    \/ \E c \in Calls : FetchFails(c)
    \/ \E c \in Calls : TimeoutFires(c)
    \/ \E c \in Calls : ReadBody(c)
    \/ \E c \in Calls : BodyFails(c)
    \/ \E c \in Calls : BackoffElapsed(c)

Spec == Init /\ [][Next]_vars

\* A call under way takes its next step: a pending fetch ends (at the latest
\* when its timer fires), a received body is read to its end, a delay ends.
Progress(c) ==
    /\ pc[c] \in {"fetching", "body", "backoff"}
    /\ \/ ReceiveResponse(c)
       \/ FetchFails(c)
       \/ TimeoutFires(c)
       \/ ReadBody(c)
       \/ BodyFails(c)
       \/ BackoffElapsed(c)

FairSpec == Spec /\ WF_vars(\E c \in Calls : Progress(c))

----------------------------------------------------------------------------
(* Two calls of one client under way together, as the host may interleave   *)
(* them: each is suspended at its awaits (fetch, response.text, delay)      *)
(* while the other runs.                                                    *)

\* the operations the interleaved calls are of
ConcurrentOperations == {"getUserId", "addHost"}

\* arguments that pass validateRequired, the optional ones left out
ValidArgs(o) ==
    [f \in Range(ParamsOf(o)) |->
       IF f \in Range(o.fields) THEN Str(Sample(f)) ELSE Undefined]

\* one client, new YandexWebmasterClient(token, {retries: 2, retryDelay: 7}),
\* and two calls not yet made
ConcurrentInit ==
    /\ proc = "library"
    /\ env = Undefined
    /\ exitCode = -1
    /\ stderr = <<>>
    /\ token = "y0_token"
    /\ options = [timeout |-> Undefined, retries |-> Num(2), retryDelay |-> Num(7)]
    /\ config = Construct(options)
    /\ registry = <<>>
    /\ InitCalls({1, 2})

\* a method of the client is called while another call may be under way
CallConcurrently(c) ==
    /\ proc = "library"
    /\ pc[c] = "idle"
    /\ \E op \in ConcurrentOperations :
          CallOperation(c, [kind |-> "client", op |-> op,
                            args |-> ValidArgs(OperationOf(op))])

ConcurrentNext ==
    \/ \E c \in Calls : CallConcurrently(c)
    \/ \E c \in Calls : ReceiveResponse(c)
    \/ \E c \in Calls : FetchFails(c)
    \/ \E c \in Calls : TimeoutFires(c)
    \/ \E c \in Calls : ReadBody(c)
    \/ \E c \in Calls : BodyFails(c)
    \/ \E c \in Calls : BackoffElapsed(c)

ConcurrentSpec == ConcurrentInit /\ [][ConcurrentNext]_vars

\* new YandexWebmasterClient(token, options) for every form of options, and
\* calls of its methods
ConfigInit ==
    /\ proc = "library"
    /\ env = Undefined
    /\ exitCode = -1
    /\ stderr = <<>>
    /\ token = "y0_token"
    /\ options \in AllConfigInputs
    /\ config = Construct(options)
    /\ registry = <<>>
    /\ InitCalls({1})

ConfigSpec == ConfigInit /\ [][ConcurrentNext]_vars

----------------------------------------------------------------------------
(* Elapsed time of a call, in milliseconds, from what its timers did: the   *)
(* timer of an attempt fires config.timeout after the attempt was issued,   *)
(* and each delay lasts the time it was given.                              *)

RECURSIVE Sum(_)
Sum(q) == IF q = <<>> THEN 0 ELSE Head(q) + Sum(Tail(q))

\* the attempts of call c that ended by their own timer firing
AbortedAttempts(c) == {i \in 1..Len(log[c]) : log[c][i] = "abort"}

\* the time call c has certainly taken: each aborted attempt lasted the whole
\* timeout, each wait its delay
ElapsedAtLeast(c) ==
    Cardinality(AbortedAttempts(c)) * config.timeout + Sum(waits[c])

\* the time call c has taken at most, an attempt counted as lasting no
\* longer than the timeout
ElapsedAtMost(c) ==
    Len(sent[c]) * config.timeout + Sum(waits[c])

----------------------------------------------------------------------------
(* Properties *)

\* the number of physical HTTP attempts call c has issued
Attempts(c) == Len(sent[c])

\* makeRequest was entered for call c
Requested(c) == Attempts(c) >= 1

Ended(c) == pc[c] = "done"

\* the message of the error the caller of the client method got, for a call
\* that failed: the rejection itself, or the text the error boundary made of it
FailureText(c) ==
    IF entry[c].kind = "client"
    THEN delivered[c][1].value.message
    ELSE delivered[c][1].value.content[1].text

\* v is what the claim calls a missing field: absent (undefined), null, the
\* empty string or a string of whitespace only
MissingOrBlank(v) ==
    \/ v.t \in {"undefined", "null"}
    \/ (v.t = "string" /\ \A i \in 1..Len(v.s) : SubSeq(v.s, i, i) \in WhiteSpace)

\* the first of the fields that is missing or blank in args, "" if none
RECURSIVE FirstMissing(_, _)
FirstMissing(args, fields) ==
    IF fields = <<>> THEN ""
    ELSE IF MissingOrBlank(Get(args, Head(fields))) THEN Head(fields)
    ELSE FirstMissing(args, Tail(fields))

\* C1. Every logical call of the request client ends in exactly one terminal
\* outcome, a parsed value or a propagated error: there is never a second
\* outcome, there is none before the call has ended and exactly one once it
\* has, and every call that was started does end.
C1_OutcomeCount ==
    \A c \in Calls :
       /\ Len(reqOutcome[c]) <= 1
       /\ Len(reqOutcome[c]) = 1 <=> (Ended(c) /\ Requested(c))
       /\ \A i \in 1..Len(reqOutcome[c]) : reqOutcome[c][i].kind \in {"return", "throw"}

C1_AllSettled == \A c \in Calls : pc[c] \in {"idle", "done"}

C1_OneTerminalOutcome == []C1_OutcomeCount /\ <>[]C1_AllSettled

C1_Witness ==
    /\ Ended(1) /\ Attempts(1) >= 2 /\ Len(reqOutcome[1]) = 1
    /\ reqOutcome[1][1].kind = "return"

\* C2. The physical attempts of a call never outnumber the configured
\* retries; the attempt counter is the number of attempts issued (1 at the
\* first, one more at each retry); and when every attempt was answered 503,
\* the call ends after exactly `retries` attempts (3 for retries = 3) with the
\* status error of the last one, whose message contains "503".
C2_RetryCeiling ==
    \A c \in Calls :
       /\ attempt[c] = Attempts(c)
       /\ Requested(c) => Attempts(c) <= config.retries
       /\ (Ended(c) /\ Requested(c) /\ \A i \in 1..Len(log[c]) : log[c][i] = "503")
          => /\ Attempts(c) = config.retries
             /\ Len(log[c]) = config.retries
             /\ reqOutcome[c][1].kind = "throw"
             /\ reqOutcome[c][1].value = StatusError(503, resp[c].text)
             /\ Includes(reqOutcome[c][1].value.message, "503")

C2_Witness ==
    /\ Ended(1) /\ config.retries = 3
    /\ log[1] = <<"503", "503", "503">>
    /\ Attempts(1) = 3
    /\ reqOutcome[1][1].kind = "throw"

\* C3. Backoff is linear and ordered: the k-th wait of a call is
\* retryDelay * k, it is recorded after attempt k failed and before attempt
\* k + 1 is issued; a call answered 503, 503, 200 under retries = 3 makes
\* exactly 3 attempts, waits retryDelay * 1 then retryDelay * 2, and returns
\* the parsed body of the third response.
C3_LinearBackoff ==
    \A c \in Calls :
       /\ \A k \in 1..Len(waits[c]) : waits[c][k] = config.retryDelay * k
       /\ pc[c] = "backoff" => Len(waits[c]) = Attempts(c) /\ Len(log[c]) = Attempts(c)
       /\ pc[c] \in {"fetching", "body"}
             => Len(waits[c]) = Attempts(c) - 1 /\ Len(log[c]) = Attempts(c) - 1
       /\ (Ended(c) /\ Requested(c)) => Len(waits[c]) = Attempts(c) - 1
       /\ (Ended(c) /\ config.retries = 3 /\ log[c] = <<"503", "503", "200">>
           /\ reqOutcome[c][1].kind = "return")
          => /\ Attempts(c) = 3
             /\ waits[c] = <<config.retryDelay, 2 * config.retryDelay>>
             /\ \E engine \in JSONEngines :
                   reqOutcome[c][1] = ParseBody(resp[c].text, engine)

C3_Witness ==
    /\ Ended(1) /\ config.retries = 3 /\ config.retryDelay = 7
    /\ log[1] = <<"503", "503", "200">>
    /\ waits[1] = <<7, 14>>
    /\ reqOutcome[1][1].kind = "return"
    /\ resp[1].text = "{}"

\* the statuses outside 2xx other than 500, 502 and 503
OtherFailureStatuses ==
    {st \in Statuses : ~ResponseOk(st) /\ st \notin {500, 502, 503}}

\* C4. A call whose first attempt is answered with a non-2xx status other
\* than 500, 502 and 503 fails at once, whatever the body text: exactly one
\* physical attempt, no backoff wait, and an error naming the status.
C4_NonRetryableStatus ==
    \A c \in Calls :
       (Len(log[c]) >= 1 /\ \E st \in OtherFailureStatuses : log[c][1] = NumberToString(st))
       => /\ Attempts(c) = 1
          /\ waits[c] = <<>>
          /\ Ended(c)
          /\ reqOutcome[c][1].kind = "throw"
          /\ Includes(reqOutcome[c][1].value.message, log[c][1])

\* the call is one of a client operation (directly or through its tool)
IsOperationCall(c) == entry[c].kind \in {"client", "tool"}

\* no HTTP request, no attempt counted, no backoff, nothing from makeRequest
NoHttp(c) ==
    /\ sent[c] = <<>> /\ attempt[c] = 0 /\ waits[c] = <<>>
    /\ log[c] = <<>> /\ reqOutcome[c] = <<>> /\ timers[c] = {}

\* C5 as stated: whenever a required field of the operation called is
\* missing, null, undefined, empty or whitespace-only, the call fails with a
\* message naming that field, with no HTTP request and no retry.
C5_NamesEveryMissingField ==
    \A c \in Calls :
       IsOperationCall(c) =>
          \A i \in 1..Len(OperationOf(entry[c].op).fields) :
             LET f == OperationOf(entry[c].op).fields[i] IN
             MissingOrBlank(Get(entry[c].args, f))
             => /\ Ended(c) /\ NoHttp(c)
                /\ Includes(FailureText(c), f)

\* C5, amended. Whenever some required field of the operation called is
\* missing, null, undefined, empty or whitespace-only, the call fails with
\* the message "<field> is required and must be non-empty" for the first such
\* field in the operation's list of required fields, with no HTTP request
\* and no retry.
C5_NamesFirstMissingField ==
    \A c \in Calls :
       IsOperationCall(c) =>
          LET first == FirstMissing(entry[c].args, OperationOf(entry[c].op).fields)
              expected == first \o " is required and must be non-empty"
          IN first # ""
             => /\ Ended(c) /\ NoHttp(c)
                /\ Len(delivered[c]) = 1
                /\ IF entry[c].kind = "client"
                   THEN /\ delivered[c][1].kind = "throw"
                        /\ delivered[c][1].value.message = expected
                   ELSE /\ delivered[c][1].kind = "return"
                        /\ delivered[c][1].value.content[1].text = "Error: " \o expected

C5_Witness ==
    /\ entry[1].kind = "client" /\ entry[1].op = "getPopularQueries"
    /\ entry[1].args.userId = Str("42")
    /\ entry[1].args.hostId = Str(" \t")
    /\ entry[1].args.orderBy = Null
    /\ Ended(1) /\ NoHttp(1)
    /\ delivered[1][1].value.message = "hostId is required and must be non-empty"

\* C6. The function withErrorHandling returns never rejects: whatever the
\* handler throws, the wrapped handler resolves with a tool result.
C6_BoundaryNeverThrows ==
    \A c \in Calls :
       (entry[c].kind = "handler" /\ Ended(c))
       => /\ Len(delivered[c]) = 1
          /\ delivered[c][1].kind = "return"

\* is v the tool result of a failure: isError true and one text block whose
\* text starts with "Error: "
IsErrorResult(v) ==
    /\ DOMAIN v = {"isError", "content"}
    /\ v.isError = TRUE
    /\ Len(v.content) = 1
    /\ v.content[1].type = "text"
    /\ StartsWith(v.content[1].text, "Error: ")

\* the tool call of c failed beneath the handler: in validation, or in makeRequest
FailedBeneath(c) ==
    \/ ~Requested(c)
    \/ (Len(reqOutcome[c]) = 1 /\ reqOutcome[c][1].kind = "throw")

\* C7. Every registered tool has its handler wrapped by the error boundary,
\* and every tool call that fails beneath the handler (validation, timeout or
\* transport error, status error after the retries, parse error) gives the
\* host a result with isError = true and one text block starting "Error: ";
\* the host never gets a raw exception.
C7_ToolFailuresAreResults ==
    /\ \A t \in DOMAIN registry : registry[t]
    /\ proc \in {"connecting", "serving"} => DOMAIN registry = ToolNames
    /\ \A c \in Calls :
          (entry[c].kind = "tool" /\ Ended(c))
          => /\ Len(delivered[c]) = 1
             /\ delivered[c][1].kind = "return"
             /\ FailedBeneath(c) => IsErrorResult(delivered[c][1].value)

C7_Witness ==
    /\ entry[1].kind = "tool" /\ entry[1].tool = "get_rss_feed_info"
    /\ Ended(1) /\ Attempts(1) = 3
    /\ log[1] = <<"abort", "502", "200">>
    /\ reqOutcome[1][1].kind = "throw"
    /\ reqOutcome[1][1].value.name = "SyntaxError"
    /\ IsErrorResult(delivered[1][1].value)

\* C8. When the handler throws an Error with message m, the wrapped handler
\* returns exactly {isError: true, content: [{type: "text", text: "Error: " + m}]}.
C8_ErrorThrown ==
    \A c \in Calls :
       (entry[c].kind = "handler" /\ Ended(c)
        /\ entry[c].completion.kind = "throw" /\ IsError(entry[c].completion.value))
       => delivered[c] =
            <<[kind |-> "return",
               value |-> [isError |-> TRUE,
                          content |-> <<[type |-> "text",
                                         text |-> "Error: "
                                            \o entry[c].completion.value.message]>>]]>>

C8_Witness ==
    /\ entry[1].kind = "handler" /\ Ended(1)
    /\ entry[1].completion = Throw(ErrorObj("Error", "boom"))
    /\ delivered[1][1].value.content[1].text = "Error: boom"

\* C9. When the handler throws a value v that is not an Error, the wrapped
\* handler returns exactly
\* {isError: true, content: [{type: "text", text: "Error: " + String(v)}]}.
C9_NonErrorThrown ==
    \A c \in Calls :
       (entry[c].kind = "handler" /\ Ended(c)
        /\ entry[c].completion.kind = "throw" /\ ~IsError(entry[c].completion.value))
       => /\ Len(delivered[c]) = 1
          /\ delivered[c][1].kind = "return"
          /\ StringOf(entry[c].completion.value).kind = "return"
          /\ delivered[c][1].value =
               [isError |-> TRUE,
                content |-> <<[type |-> "text",
                               text |-> "Error: "
                                  \o StringOf(entry[c].completion.value).value]>>]

\* the handler of call c returned the result r
HandlerReturned(c) ==
    entry[c].kind = "handler" /\ Ended(c) /\ entry[c].completion.kind = "return"

\* C10 as stated: when the handler resolves with r, the wrapped handler
\* resolves with r unchanged, and the result has no isError property.
C10_PassThroughNoIsError ==
    \A c \in Calls :
       HandlerReturned(c)
       => /\ delivered[c] = <<Return(entry[c].completion.value)>>
          /\ "isError" \notin DOMAIN delivered[c][1].value

\* C10, amended. When the handler resolves with r, the wrapped handler
\* resolves with r unchanged: the same content blocks, and an isError
\* property exactly when r has one (the wrapper adds none).
C10_PassThrough ==
    \A c \in Calls :
       HandlerReturned(c)
       => /\ Len(delivered[c]) = 1
          /\ delivered[c][1].kind = "return"
          /\ delivered[c][1].value = entry[c].completion.value
          /\ DOMAIN delivered[c][1].value = DOMAIN entry[c].completion.value

C10_Witness ==
    /\ HandlerReturned(1)
    /\ entry[1].completion.value = [content |-> <<TextBlock("ok")>>]
    /\ delivered[1] = <<Return([content |-> <<TextBlock("ok")>>])>>

\* the log entries of attempts answered with a 2xx status
SuccessEntries == {NumberToString(st) : st \in {x \in Statuses : ResponseOk(x)}}

\* C11. A parse error is never retried. An attempt answered 2xx ends in the
\* parsed value, in the parse failure or in a failed body read (logged apart),
\* and only a failure can be followed by a wait: so a first attempt answered
\* 2xx is the only attempt of its call, with no backoff wait, whatever the
\* body text; and when the body is non-empty and not valid JSON the call
\* propagates the SyntaxError of JSON.parse.
C11_ParseErrorNotRetried ==
    \A c \in Calls :
       (Len(log[c]) >= 1 /\ log[c][1] \in SuccessEntries)
       => /\ Attempts(c) = 1
          /\ waits[c] = <<>>
          /\ Ended(c)
          /\ (resp[c].text # "" /\ ~IsValidJSON(resp[c].text))
             => /\ reqOutcome[c][1].kind = "throw"
                /\ reqOutcome[c][1].value.name = "SyntaxError"

\* the error fetch rejects with when its signal is aborted
AbortFailure == ErrorObj("AbortError", "This operation was aborted")

\* what followed each aborted attempt: below the ceiling the backoff wait
\* retryDelay * i and then attempt i + 1, at the ceiling the abort failure
\* propagated; and a transport that never responds under retries = 3
C12_AbortOutcome ==
    \A c \in Calls :
       /\ \A i \in 1..Len(log[c]) :
             log[c][i] = "abort"
             => IF i < config.retries
                THEN /\ Len(waits[c]) >= i
                     /\ waits[c][i] = config.retryDelay * i
                     /\ (pc[c] = "backoff" /\ Attempts(c) = i) \/ Attempts(c) > i
                ELSE /\ i = Len(log[c])
                     /\ Ended(c)
                     /\ reqOutcome[c] = <<Throw(AbortFailure)>>
       /\ (Ended(c) /\ Requested(c) /\ config.retries = 3
           /\ \A i \in 1..Len(log[c]) : log[c][i] = "abort")
          => /\ Attempts(c) = 3
             /\ log[c] = <<"abort", "abort", "abort">>

\* the timer of the attempt in flight goes off before the response came:
\* that attempt ends aborted
C12_TimeoutAborts ==
    \A c \in Calls :
       (/\ pc[c] = "fetching"
        /\ attempt[c] \in timers[c]
        /\ attempt[c] \notin timers'[c]
        /\ pc'[c] # "body")
       => /\ log'[c] = Append(log[c], "abort")
          /\ pc'[c] \in {"backoff", "done"}

\* C12. When the timeout elapses before a response is received the attempt
\* in flight is aborted, and the abort is retryable: below the retries
\* ceiling the client waits the backoff and issues the next attempt, at the
\* ceiling it propagates the abort failure; a transport that never responds
\* under retries = 3 gets exactly 3 attempts, each of them aborted.
C12_AbortRetried == []C12_AbortOutcome /\ [][C12_TimeoutAborts]_vars

C12_Witness ==
    /\ Ended(1) /\ config.retries = 3
    /\ log[1] = <<"abort", "abort", "abort">>
    /\ Attempts(1) = 3
    /\ Len(waits[1]) = 2
    /\ reqOutcome[1] = <<Throw(AbortFailure)>>

\* the value each valid JSON text of Bodies stands for
ValueOfText(text) ==
    CASE text = "{}" -> [t |-> "object"]
      [] text = "12" -> [t |-> "number", n |-> 12]

\* the call of c ended with an attempt answered 2xx whose body was read
EndedOnSuccessStatus(c) ==
    /\ Ended(c) /\ Len(log[c]) >= 1
    /\ log[c][Len(log[c])] \in SuccessEntries
    /\ ResponseOk(resp[c].status)

\* C13. A 2xx response with an empty body makes the call succeed on that
\* attempt with an empty object: no parse error, no further attempt; a 2xx
\* response with a non-empty valid JSON body makes it return the value the
\* text stands for.
C13_EmptyBodyIsEmptyObject ==
    \A c \in Calls :
       EndedOnSuccessStatus(c)
       => /\ resp[c].text = ""
             => /\ reqOutcome[c] = <<Return([t |-> "object"])>>
                /\ Attempts(c) = Len(log[c])
                /\ Len(waits[c]) = Attempts(c) - 1
          /\ resp[c].text \in {"{}", "12"}
             => /\ reqOutcome[c] = <<Return(ValueOfText(resp[c].text))>>
                /\ Attempts(c) = Len(log[c])

C13_Witness ==
    /\ EndedOnSuccessStatus(1)
    /\ log[1] = <<"200">>
    /\ resp[1] = [status |-> 200, text |-> ""]
    /\ reqOutcome[1] = <<Return([t |-> "object"])>>
    /\ entry[1].kind = "client"
    /\ delivered[1] = <<Return([t |-> "object"])>>

\* everything the model keeps for call c
CallState(c) ==
    <<pc[c], entry[c], req[c], attempt[c], resp[c], timers[c], sent[c],
      log[c], waits[c], reqOutcome[c], delivered[c]>>

\* the error an attempt of call c logged as `how` ended with
ErrorOfEntry(c, how) ==
    CASE how = "abort" -> AbortFailure
      [] how = "network" -> ErrorObj("TypeError", "fetch failed")
      [] how = "body" -> ErrorObj("TypeError", "terminated")
      [] OTHER -> StatusError(resp[c].status, resp[c].text)

\* The state of call c is one it has when it runs alone: its counter, its
\* requests, its waits and its outcome are those its own arguments, its own
\* transport answers and the client's configuration give.
RunsAsAlone(c) ==
    /\ attempt[c] = Attempts(c)
    /\ Attempts(c) <= config.retries
    /\ \A i \in 1..Attempts(c) :
          /\ sent[c][i].url = UrlOf(entry[c].op, entry[c].args)
          /\ sent[c][i].method = OperationOf(entry[c].op).method
          /\ sent[c][i].body = BodyOf(entry[c].op, entry[c].args)
    /\ \A k \in 1..Len(waits[c]) : waits[c][k] = config.retryDelay * k
    /\ timers[c] \subseteq 1..Attempts(c)
    /\ CASE pc[c] = "idle" -> CallState(c) = <<"idle", NoEntry, NoRequest, 0, NoResponse,
                                               {}, <<>>, <<>>, <<>>, <<>>, <<>>>>
         [] pc[c] = "backoff" ->
               /\ Len(log[c]) = Attempts(c) /\ Len(waits[c]) = Attempts(c)
               /\ reqOutcome[c] = <<>> /\ delivered[c] = <<>>
         [] pc[c] \in {"fetching", "body"} ->
               /\ Len(log[c]) = Attempts(c) - 1 /\ Len(waits[c]) = Attempts(c) - 1
               /\ reqOutcome[c] = <<>> /\ delivered[c] = <<>>
         [] pc[c] = "done" ->
               /\ Len(log[c]) = Attempts(c) /\ Len(waits[c]) = Attempts(c) - 1
               /\ Len(reqOutcome[c]) = 1 /\ delivered[c] = reqOutcome[c]
               /\ LET how == log[c][Len(log[c])]
                      out == reqOutcome[c][1]
                  IN IF how \in SuccessEntries
                     THEN IF resp[c].text = "" THEN out = Return([t |-> "object"])
                          ELSE IF resp[c].text \in {"{}", "12"}
                          THEN out = Return(ValueOfText(resp[c].text))
                          ELSE out.kind = "throw" /\ out.value.name = "SyntaxError"
                     ELSE out = Throw(ErrorOfEntry(c, how))

\* what call c may do next depends on where it is itself, not on the others
NeverHeldUp(c) ==
    /\ pc[c] = "idle" => ENABLED CallConcurrently(c)
    /\ pc[c] = "fetching" => /\ ENABLED ReceiveResponse(c)
                             /\ ENABLED FetchFails(c)
                             /\ attempt[c] \in timers[c]
    /\ pc[c] = "body" => ENABLED ReadBody(c) /\ ENABLED BodyFails(c)
    /\ pc[c] = "backoff" => ENABLED BackoffElapsed(c)

C14_EachAsAlone == \A c \in Calls : RunsAsAlone(c) /\ NeverHeldUp(c)

\* a step changes what is kept for one call at most, and never the client
C14_StepsAreLocal ==
    /\ token' = token
    /\ config' = config
    /\ \A c \in Calls : \A d \in Calls \ {c} :
          CallState(c)' # CallState(c) => CallState(d)' = CallState(d)

\* C14. Interleaved calls do not interfere: at every suspension point each
\* call's attempt counter, waits, requests and outcome are those of the call
\* running alone, a step of one call leaves every other call as it was, and
\* no step changes the client's token or configuration.
C14_NoInterference == []C14_EachAsAlone /\ [][C14_StepsAreLocal]_vars

C14_Witness ==
    /\ pc[1] = "backoff" /\ Attempts(1) = 1 /\ waits[1] = <<7>>
    /\ pc[2] = "body" /\ Attempts(2) = 2 /\ waits[2] = <<7>>
    /\ entry[1].op = "addHost" /\ entry[2].op = "getUserId"
    /\ log[1] = <<"abort">> /\ log[2] = <<"503">>

\* the attempts of call c issued and not yet ended
InFlight(c) == Attempts(c) - Len(log[c])

C15_AtMostOne ==
    \A c \in Calls :
       /\ InFlight(c) \in {0, 1}
       /\ InFlight(c) = 1 <=> pc[c] \in {"fetching", "body"}

\* an attempt is issued: none is pending, and unless it is the first, the
\* one before it ended without an outcome for the call and its wait is over
C15_IssuedInTurn ==
    \A c \in Calls :
       Attempts(c)' # Attempts(c)
       => /\ Attempts(c)' = Attempts(c) + 1
          /\ InFlight(c) = 0
          /\ reqOutcome[c] = <<>>
          /\ Attempts(c) >= 1
             => /\ pc[c] = "backoff"
                /\ Len(log[c]) = Attempts(c)
                /\ Len(waits[c]) = Attempts(c)

\* C15. Within one call at most one physical attempt is in flight: attempt
\* k + 1 is issued only after attempt k has ended in failure and its backoff
\* wait has finished, never while an attempt of the call is pending.
C15_OneInFlight == []C15_AtMostOne /\ [][C15_IssuedInTurn]_vars

C15_Witness ==
    /\ pc[1] = "fetching" /\ Attempts(1) = 3 /\ InFlight(1) = 1
    /\ log[1] = <<"502", "abort">>
    /\ waits[1] = <<7, 14>>

\* 1 + 2 + ... + n
Triangle(n) == (n * (n + 1)) \div 2

\* C16 as stated: the elapsed time of a call is at most
\* timeout + retryDelay * (1 + 2 + ... + (retries - 1)).
C16_LatencyOneTimeout ==
    \A c \in Calls :
       Requested(c)
       => ElapsedAtLeast(c)
             <= config.timeout + config.retryDelay * Triangle(config.retries - 1)

\* C16, amended. An attempt counted as lasting at most the timeout and the
\* k-th wait as retryDelay * k, the elapsed time of a call is at most
\* retries * timeout + retryDelay * (1 + 2 + ... + (retries - 1)): every
\* attempt, not only one, may last the whole timeout.
C16_LatencyBound ==
    \A c \in Calls :
       Requested(c)
       => /\ ElapsedAtLeast(c) <= ElapsedAtMost(c)
          /\ ElapsedAtMost(c)
                <= config.retries * config.timeout
                   + config.retryDelay * Triangle(config.retries - 1)

C16_Witness ==
    /\ Ended(1) /\ config.retries = 3 /\ config.retryDelay = 7
    /\ log[1] = <<"abort", "abort", "abort">>
    /\ ElapsedAtLeast(1) = 3 * 30000 + 7 * (1 + 2)
    /\ ElapsedAtMost(1) = ElapsedAtLeast(1)

\* the token the client was configured with: the environment's for the
\* server, the constructor argument of the direct use
ConfiguredToken == IF env.t = "string" THEN env.s ELSE "y0_token"

\* C17. Every physical HTTP attempt, the first and every retry, carries
\* Authorization: OAuth <configured token> and Content-Type:
\* application/json; none is issued without them or with another token.
C17_AuthOnEveryAttempt ==
    \A c \in Calls : \A i \in 1..Len(sent[c]) :
       /\ {"Authorization", "ContentType"} \subseteq DOMAIN sent[c][i].headers
       /\ sent[c][i].headers.Authorization = "OAuth " \o ConfiguredToken
       /\ sent[c][i].headers.ContentType = "application/json"

C17_Witness ==
    /\ proc = "serving" /\ entry[1].kind = "tool"
    /\ Attempts(1) = 3
    /\ log[1] = <<"503", "abort">>
    /\ \A i \in 1..3 : sent[1][i].headers.Authorization = "OAuth y0_token"

\* the part of a url after its first "?", "" when it has none
RECURSIVE QueryString(_)
QueryString(url) ==
    IF Len(url) = 0 THEN ""
    ELSE IF SubSeq(url, 1, 1) = "?" THEN SubSeq(url, 2, Len(url))
    ELSE QueryString(SubSeq(url, 2, Len(url)))

\* call c is one of getPopularQueries that reached makeRequest
PopularQueriesRequested(c) ==
    IsOperationCall(c) /\ entry[c].op = "getPopularQueries" /\ Requested(c)

\* field f was supplied to the call of c
Supplied(c, f) == Get(entry[c].args, f) # Undefined

\* C18. getPopularQueries given dateFrom, dateTo and orderBy and no optional
\* field asks for exactly
\* date_from=<dateFrom>&date_to=<dateTo>&order_by=<orderBy>, in that order,
\* with no limit, offset or query_indicator key; the three keys come first
\* in every case, and an optional key is in the query string only when its
\* field was supplied.
C18_PopularQueryString ==
    \A c \in Calls :
       PopularQueriesRequested(c)
       => LET a == entry[c].args
              q == QueryString(sent[c][1].url)
              required == "date_from=" \o a.dateFrom.s \o "&date_to=" \o a.dateTo.s
                          \o "&order_by=" \o a.orderBy.s
          IN /\ StartsWith(q, required)
             /\ (~Supplied(c, "queryIndicator") /\ ~Supplied(c, "limit")
                 /\ ~Supplied(c, "offset")) => q = required
             /\ Includes(q, "query_indicator=") => Supplied(c, "queryIndicator")
             /\ Includes(q, "limit=") => Supplied(c, "limit")
             /\ Includes(q, "offset=") => Supplied(c, "offset")
             /\ \A i \in 1..Len(sent[c]) : sent[c][i].url = sent[c][1].url

C18_Witness ==
    /\ PopularQueriesRequested(1) /\ entry[1].kind = "client"
    /\ entry[1].args.dateFrom = Str("2024-01-01")
    /\ entry[1].args.dateTo = Str("2024-01-31")
    /\ entry[1].args.orderBy = Str("TOTAL_CLICKS")
    /\ ~Supplied(1, "queryIndicator") /\ ~Supplied(1, "limit") /\ ~Supplied(1, "offset")
    /\ QueryString(sent[1][1].url)
          = "date_from=2024-01-01&date_to=2024-01-31&order_by=TOTAL_CLICKS"

\* the environment gives no token: the variable is unset or empty
TokenAbsent == env.t = "undefined" \/ (env.t = "string" /\ Len(env.s) = 0)

\* no client constructed, no tool registered, no call made
NothingStarted ==
    /\ token = "" /\ config = NoConfig
    /\ registry = <<>>
    /\ \A c \in Calls : pc[c] = "idle" /\ sent[c] = <<>> /\ delivered[c] = <<>>

\* C19. A missing token is fatal at startup: the process logs to stderr and
\* exits with a non-zero status before a client is constructed, a tool is
\* registered or a request is issued, so no tool call ever reports it; a
\* failure to connect the transport logs and exits with a non-zero status
\* too.
C19_MissingTokenIsFatal ==
    /\ (proc # "library" /\ TokenAbsent)
       => /\ proc \in {"loading", "exited"}
          /\ NothingStarted
          /\ proc = "exited"
             => stderr = <<"Error: YANDEX_API_KEY environment variable is required">>
    /\ proc = "exited"
       => /\ exitCode > 0
          /\ Len(stderr) = 1
          /\ ~TokenAbsent => /\ StartsWith(stderr[1], "Fatal error")
                             /\ \A c \in Calls : pc[c] = "idle" /\ sent[c] = <<>>
    /\ proc \in {"loading", "connecting", "serving", "library"} => exitCode = -1

C19_Witness ==
    /\ proc = "exited" /\ env = Undefined
    /\ exitCode = 1
    /\ stderr = <<"Error: YANDEX_API_KEY environment variable is required">>
    /\ NothingStarted

\* call c has an attempt aborted in this step
AbortedNow(c) ==
    /\ Len(log'[c]) = Len(log[c]) + 1
    /\ log'[c][Len(log'[c])] = "abort"

\* the timers an attempt of each call has armed: its own, one per attempt
C20_OwnTimers ==
    \A c \in Calls :
       /\ timers[c] \subseteq 1..Attempts(c)
       /\ pc[c] = "fetching" => attempt[c] \in timers[c]
       /\ pc[c] = "body" => attempt[c] \notin timers[c]

C20_AbortedByOwnTimer ==
    \A c \in Calls :
       /\ AbortedNow(c)
          => /\ pc[c] = "fetching"
             /\ attempt[c] \in timers[c]
             /\ timers'[c] = timers[c] \ {attempt[c]}
             /\ \A d \in Calls \ {c} : timers'[d] = timers[d]
       /\ \A k \in timers[c] \ timers'[c] :
             (k # attempt[c] \/ pc[c] # "fetching")
             => /\ \A d \in Calls : ~AbortedNow(d)
                /\ <<pc, log, waits, reqOutcome, delivered, attempt, sent>>' =
                      <<pc, log, waits, reqOutcome, delivered, attempt, sent>>

\* C20. Only the timer of the attempt in flight aborts it: every attempt has
\* its own controller and timer, and a timer of an earlier attempt (one left
\* armed when its attempt failed before clearTimeout) or of another call,
\* going off, aborts nothing.
C20_OnlyOwnTimerAborts == []C20_OwnTimers /\ [][C20_AbortedByOwnTimer]_vars

C20_Witness ==
    /\ Ended(1) /\ log[1] = <<"network">> /\ timers[1] = {}
    /\ pc[2] = "fetching" /\ timers[2] = {2} /\ log[2] = <<"503">>

\* C21. Once the module body has run, the tools registered with the server
\* are exactly the tools of the README's Available Tools table: every
\* registered tool is listed and every listed tool is registered.
C21_RegisteredAsListed ==
    proc \in {"connecting", "serving"}
    => /\ \A t \in DOMAIN registry : t \in ReadmeTools
       /\ \A t \in ReadmeTools : t \in DOMAIN registry

\* the error text holds one of the indicators 500, 502, 503
HasStatusIndicator(text) ==
    \E code \in {"500", "502", "503"} : Includes(text, code)

\* retryable as the claim has it: an Error object that is the abort of a
\* timeout or whose text holds an indicator
RetryableAsClaimed(v) ==
    /\ v.t = "Error"
    /\ v.name = "AbortError" \/ HasStatusIndicator(v.message)

\* C22. A failure is classified retryable exactly when it is an Error that
\* is a timeout abort or whose message text contains 500, 502 or 503; a
\* thrown value that is not an Error is never retryable. A failure is
\* retried only when it is retryable and the attempt counter is below the
\* retries ceiling; otherwise the very error of the attempt is propagated.
C22_RetryClassification ==
    \A c \in Calls :
       /\ (entry[c].kind = "classify" /\ Ended(c))
          => LET e == entry[c].error
                 got == delivered[c][1].value
             IN /\ got.retryable <=> RetryableAsClaimed(e)
                /\ e.t # "Error" => ~got.retryable
                /\ got.retried <=> (RetryableAsClaimed(e)
                                    /\ entry[c].attempt < config.retries)
       /\ pc[c] = "backoff"
          => /\ attempt[c] < config.retries
             /\ log[c][Len(log[c])] \notin {"network", "body"}
       /\ (IsOperationCall(c) /\ Ended(c) /\ Requested(c)
           /\ reqOutcome[c][1].kind = "throw")
          => LET e == reqOutcome[c][1].value
                 how == log[c][Len(log[c])]
             IN /\ ~(RetryableAsClaimed(e) /\ attempt[c] < config.retries)
                /\ IF how \in SuccessEntries THEN e.name = "SyntaxError"
                   ELSE e = ErrorOfEntry(c, how)

C22_Witness ==
    /\ Ended(1) /\ config.retries = 3
    /\ entry[1] = [kind |-> "classify", error |-> Str("503"), attempt |-> 1]
    /\ delivered[1] = <<Return([retryable |-> FALSE, retried |-> FALSE])>>

\* C23. Every retry of a call re-issues the request of its first attempt:
\* the same url, method and JSON body, whatever the method; a first attempt
\* that failed retryably below the ceiling is followed by a retry for POST
\* and DELETE as for GET, so that one call of a mutating operation may send
\* its request up to `retries` times.
C23_RetriesRepeatRequest ==
    \A c \in Calls :
       /\ \A i \in 1..Attempts(c) :
             /\ sent[c][i].url = sent[c][1].url
             /\ sent[c][i].method = sent[c][1].method
             /\ sent[c][i].body = sent[c][1].body
             /\ sent[c][i].method = OperationOf(entry[c].op).method
       /\ Attempts(c) <= config.retries \/ ~Requested(c)
       /\ (Len(log[c]) >= 1 /\ log[c][1] \in {"abort", "502", "503"}
           /\ config.retries >= 2)
          => Attempts(c) >= 2 \/ pc[c] = "backoff"

C23_Witness ==
    /\ entry[1].kind = "tool" /\ entry[1].tool = "add_host"
    /\ Ended(1) /\ Attempts(1) = 3 /\ config.retries = 3
    /\ \A i \in 1..3 :
          /\ sent[1][i].method = "POST"
          /\ sent[1][i].url = "https://api.webmaster.yandex.net/v4/user/42/hosts"
          /\ sent[1][i].body = <<"{\"host_url\":\"https://example.com\"}">>

C24_WaitCount ==
    \A c \in Calls :
       /\ (Ended(c) /\ Requested(c)) => Len(waits[c]) = Attempts(c) - 1
       /\ Attempts(c) <= 1 => (waits[c] = <<>> \/ pc[c] = "backoff")
       /\ ~Requested(c) => waits[c] = <<>>

\* a wait begins only with the failure of an attempt that is to be retried;
\* the step that gives the call its outcome begins none, and once the call
\* has its outcome there is no further attempt and no further wait
C24_WaitsOnlyBetween ==
    \A c \in Calls :
       /\ waits'[c] # waits[c]
          => /\ Len(waits'[c]) = Len(waits[c]) + 1
             /\ Len(log'[c]) = Len(log[c]) + 1
             /\ pc'[c] = "backoff"
             /\ reqOutcome'[c] = <<>>
       /\ reqOutcome'[c] # reqOutcome[c] => waits'[c] = waits[c]
       /\ reqOutcome[c] # <<>>
          => /\ sent'[c] = sent[c] /\ waits'[c] = waits[c]
             /\ reqOutcome'[c] = reqOutcome[c]

\* C24. In every call the backoff waits number the physical attempts minus
\* one: none before the first attempt, none after the attempt that succeeds,
\* none after the last failed attempt before its error is propagated; and
\* after a successful attempt no further attempt is issued.
C24_WaitsBetweenAttempts == []C24_WaitCount /\ [][C24_WaitsOnlyBetween]_vars

C24_Witness ==
    /\ Ended(1) /\ Attempts(1) = 2 /\ config.retries = 3
    /\ log[1] = <<"503", "200">>
    /\ waits[1] = <<7>>
    /\ reqOutcome[1] = <<Return([t |-> "object"])>>

\* the option was left out or given as 0
OmittedOrZero(v) == v.t = "undefined" \/ (v.t = "number" /\ v.n = 0)

\* what the client keeps for an option: the default when it was left out or
\* 0, the number given otherwise
Kept(v, default) == IF OmittedOrZero(v) THEN default ELSE v.n

\* C25. An option (timeout, retries, retryDelay) left out or given as 0 is
\* replaced by its default (30000, 3, 1000), so that retries = 0 behaves as
\* retries = 3; whatever the configuration, a call that passed validation
\* makes at least one physical attempt; with retries = 1 it makes exactly one
\* and never waits.
C25_ConfigDefaults ==
    /\ config.timeout = Kept(options.timeout, 30000)
    /\ config.retries = Kept(options.retries, 3)
    /\ config.retryDelay = Kept(options.retryDelay, 1000)
    /\ \A c \in Calls :
          /\ pc[c] # "idle" => Attempts(c) >= 1
          /\ options.retries = Num(0)
             => /\ Attempts(c) <= 3
                /\ (Ended(c) /\ \A i \in 1..Len(log[c]) : log[c][i] \in {"abort", "503"})
                   => Attempts(c) = 3 /\ Len(waits[c]) = 2
          /\ options.retries = Num(1)
             => /\ Attempts(c) <= 1
                /\ waits[c] = <<>>
                /\ pc[c] # "backoff"

C25_Witness ==
    /\ options = [timeout |-> Num(0), retries |-> Num(0), retryDelay |-> Num(0)]
    /\ config = [timeout |-> 30000, retries |-> 3, retryDelay |-> 1000]
    /\ Ended(1) /\ Attempts(1) = 3
    /\ log[1] = <<"503", "abort", "503">>
    /\ waits[1] = <<1000, 2000>>

\* while the body of a received response is read, the attempt has no timer
C26_TimerCancelled ==
    \A c \in Calls :
       pc[c] = "body"
       => /\ attempt[c] \notin timers[c]
          /\ resp[c].status \in Statuses
          /\ Len(log[c]) = Attempts(c) - 1

\* the response arrives: its timer is cancelled in that very step; and the
\* reading of a body ends by the body itself, read or broken off, never by
\* an abort
C26_BodyNotTimed ==
    \A c \in Calls :
       /\ (pc[c] = "fetching" /\ pc'[c] = "body")
          => timers'[c] = timers[c] \ {attempt[c]}
       /\ pc[c] = "body"
          => /\ ~AbortedNow(c)
             /\ pc'[c] # "body"
                => /\ Len(log'[c]) = Len(log[c]) + 1
                   /\ log'[c][Len(log'[c])]
                         \in {"body", NumberToString(resp[c].status)}

\* C26. The timeout covers only the wait for the response: once the
\* response of an attempt has been received its timer is cancelled, that
\* attempt can no longer end in a timeout abort, and the reading of the body
\* is not bounded by the timeout.
C26_TimeoutCoversFetchOnly == []C26_TimerCancelled /\ [][C26_BodyNotTimed]_vars

C26_Witness ==
    /\ pc[1] = "body" /\ Attempts(1) = 2
    /\ log[1] = <<"abort">>
    /\ timers[1] = {}
    /\ resp[1].status = 200

\* the operations that take only limit and offset as query parameters
PaginationOnly ==
    {"getIndexingSamples", "getRecrawlTasks", "getInternalLinks", "getExternalLinks"}

\* field f of call c is absent or 0
AbsentOrZero(c, f) ==
    LET v == Get(entry[c].args, f)
    IN v.t = "undefined" \/ (v.t = "number" /\ v.n = 0)

\* C27. In every operation that takes limit and offset, a limit or offset
\* of 0 is treated as an absent one: its key is left out of the query
\* string (and a value that is not 0 is sent under its key); a
\* pagination-only operation that emits neither key has no "?" in its url.
C27_ZeroPagination ==
    \A c \in Calls :
       (IsOperationCall(c) /\ Requested(c)
        /\ entry[c].op \in PaginationOnly \cup {"getPopularQueries"})
       => LET url == sent[c][1].url
              q == QueryString(url)
              a == entry[c].args
          IN /\ AbsentOrZero(c, "limit") <=> ~Includes(q, "limit=")
             /\ AbsentOrZero(c, "offset") <=> ~Includes(q, "offset=")
             /\ ~AbsentOrZero(c, "limit")
                => Includes(q, "limit=" \o NumberToString(a.limit.n))
             /\ ~AbsentOrZero(c, "offset")
                => Includes(q, "offset=" \o NumberToString(a.offset.n))
             /\ (entry[c].op \in PaginationOnly
                 /\ AbsentOrZero(c, "limit") /\ AbsentOrZero(c, "offset"))
                => /\ ~Includes(url, "?")
                   /\ q = ""

C27_Witness ==
    /\ entry[1].kind = "tool" /\ entry[1].op = "getIndexingSamples" /\ Requested(1)
    /\ entry[1].args.limit = Num(0) /\ entry[1].args.offset = Num(0)
    /\ sent[1][1].url =
          "https://api.webmaster.yandex.net/v4/user/42/hosts/https:example.com:443/indexing/samples"

====
